---- MODULE Spec2Model ----
(***************************************************************************)
(* Service-dependency subsystem of azd: the `dep add` / `dep remove`       *)
(* commands acting on the dependsOn lists of the project manifest          *)
(* (azure.yaml).                                                           *)
(*                                                                         *)
(* One invocation of a command is one action: it loads the manifest, runs  *)
(* the handler's checks on its in-memory copy, asks the console where the  *)
(* handler asks, mutates the copy and saves it.  The state keeps the last  *)
(* invocation's inputs, the project as it was loaded, the in-memory        *)
(* project at return and the result, so that the pre/post relation of an   *)
(* invocation is a state predicate.                                        *)
(***************************************************************************)
EXTENDS Integers, Sequences, FiniteSets, TLC

\* Names a command line can mention.
Names == {"api", "web", "database"}

\* Sets of services a manifest of the Spec declares; "database" is never
\* declared there, so it is the name of a service that does not exist.
ServiceSets == {{}, {"api"}, {"api", "web"}}

\* Largest number of dependsOn entries (over all services) in a manifest at
\* the start of a behaviour.
MaxLoadEdges == 2

\* A dependsOn field: Go's nil slice (isNil) or a slice with entries.
NilDeps == [isNil |-> TRUE, DependsOn |-> <<>>]

Deps(list) == [isNil |-> FALSE, DependsOn |-> list]

SeqsUpTo(n) == UNION {[1..k -> Names] : k \in 0..n}

DepValues == {NilDeps} \cup {Deps(q) : q \in SeqsUpTo(MaxLoadEdges)}

RECURSIVE TotalEdges(_, _)
TotalEdges(cfg, todo) ==
    IF todo = {} THEN 0
    ELSE LET s == CHOOSE x \in todo : TRUE
         IN  Len(cfg[s].DependsOn) + TotalEdges(cfg, todo \ {s})

Manifests(services) ==
    {m \in [services -> DepValues] : TotalEdges(m, services) <= MaxLoadEdges}

----------------------------------------------------------------------------
\* Slices.

Contains(list, x) == \E i \in 1..Len(list) : list[i] = x

Count(list, x) == Cardinality({i \in 1..Len(list) : list[i] = x})

Max(a, b) == IF a >= b THEN a ELSE b

\* Index of the first entry equal to x, 0 when there is none (the code's
\* foundIndex, which is 0-based with -1 for none).
IndexOf(list, x) ==
    IF Contains(list, x)
    THEN CHOOSE i \in 1..Len(list) :
            /\ list[i] = x
            /\ \A j \in 1..(i - 1) : list[j] # x
    ELSE 0

\* RemoveAt with the entries after position i lost.
RemoveAtDropsTail(list, i) == SubSeq(list, 1, i - 1)

\* append(list[:i], list[i+1:]...)
RemoveAt(list, i) == SubSeq(list, 1, i - 1) \o SubSeq(list, i + 1, Len(list))

----------------------------------------------------------------------------
\* The manifest collaborator.

\* project.Load: an absent dependsOn key is a nil slice, a present one is
\* the sequence it holds.
Load(m) == [s \in DOMAIN m |-> [isNil |-> m[s].isNil, DependsOn |-> m[s].DependsOn]]

\* project.Save: a service without entries is written without a dependsOn
\* key (the canonical write-back shape), any other with its sequence.
Save(cfg) ==
    [s \in DOMAIN cfg |->
        IF Len(cfg[s].DependsOn) = 0 THEN NilDeps ELSE Deps(cfg[s].DependsOn)]

----------------------------------------------------------------------------
\* Cycle detection.

\* The dependencies dfs ranges over at a name: none for a name that is no
\* service or whose DependsOn is nil.
DepsOf(cfg, current) ==
    IF current \in DOMAIN cfg /\ ~cfg[current].isNil
    THEN cfg[current].DependsOn
    ELSE <<>>

\* The closure dfs of DetectCyclicDependencies and its loop over the
\* dependencies of the top of the stack from position i on.  st holds the
\* captured visited and path maps (as the sets of names mapped to true) and
\* the cycles slice; found is dfs's return value.
RECURSIVE dfs(_, _, _, _), dfsLoop(_, _, _, _, _)

\* dfsLoop with cycleStart starting at 0 instead of -1: a dependency marked
\* on-path that is not on the stack is reported with the whole stack.
dfsLoopUnchecked(cfg, deps, i, stack, st) ==
    IF i > Len(deps)
    THEN [found |-> FALSE, st |-> st]
    ELSE LET dep == deps[i]
         IN  IF dep \notin st.visited
             THEN LET r == dfs(cfg, dep, stack, st)
                  IN  IF r.found THEN r ELSE dfsLoop(cfg, deps, i + 1, stack, r.st)
             ELSE IF dep \in st.path
             THEN [found |-> TRUE,
                   st |-> [st EXCEPT !.cycles =
                              Append(@, SubSeq(stack, Max(1, IndexOf(stack, dep)),
                                               Len(stack))
                                        \o <<dep>>)]]
             ELSE dfsLoop(cfg, deps, i + 1, stack, st)

\* dfsLoop without the return after a cycle is found: the loop goes on with
\* the next dependency.
dfsLoopKeepsExploring(cfg, deps, i, stack, st) ==
    IF i > Len(deps)
    THEN [found |-> FALSE, st |-> st]
    ELSE LET dep == deps[i]
         IN  IF dep \notin st.visited
             THEN dfsLoop(cfg, deps, i + 1, stack, dfs(cfg, dep, stack, st).st)
             ELSE IF dep \in st.path /\ IndexOf(stack, dep) # 0
             THEN dfsLoop(cfg, deps, i + 1, stack,
                          [st EXCEPT !.cycles =
                              Append(@, SubSeq(stack, IndexOf(stack, dep), Len(stack))
                                        \o <<dep>>)])
             ELSE dfsLoop(cfg, deps, i + 1, stack, st)

dfs(cfg, current, stack, st) ==
    IF current \in st.visited
    THEN [found |-> FALSE, st |-> st]
    ELSE LET st1 == [st EXCEPT !.visited = @ \cup {current},
                               !.path = @ \cup {current}]
             r   == dfsLoop(cfg, DepsOf(cfg, current), 1, Append(stack, current), st1)
         IN  IF r.found
             THEN r
             ELSE [found |-> FALSE, st |-> [r.st EXCEPT !.path = @ \ {current}]]

dfsLoop(cfg, deps, i, stack, st) ==
    IF i > Len(deps)
    THEN [found |-> FALSE, st |-> st]
    ELSE LET dep == deps[i]
         IN  IF dep \notin st.visited
             THEN LET r == dfs(cfg, dep, stack, st)
                  IN  IF r.found THEN r ELSE dfsLoop(cfg, deps, i + 1, stack, r.st)
             ELSE IF dep \in st.path /\ IndexOf(stack, dep) # 0
             THEN [found |-> TRUE,
                   st |-> [st EXCEPT !.cycles =
                              Append(@, SubSeq(stack, IndexOf(stack, dep), Len(stack))
                                        \o <<dep>>)]]
             ELSE dfsLoop(cfg, deps, i + 1, stack, st)

\* RunRoots with the loop left after the first root.
RunRootsFirstOnly(cfg, order, i, st) ==
    IF i > Len(order) THEN st ELSE dfs(cfg, order[i], <<>>, st).st

\* The loop over the services as DFS roots, in the order the map iteration
\* yields them.
RECURSIVE RunRoots(_, _, _, _)
RunRoots(cfg, order, i, st) ==
    IF i > Len(order)
    THEN st
    ELSE RunRoots(cfg, order, i + 1,
                  IF order[i] \notin st.visited
                  THEN dfs(cfg, order[i], <<>>, st).st
                  ELSE st)

\* DetectCyclicDependencies: the cycles reported (each as the sequence of
\* names joined by " -> ") when the services are iterated in the given order.
DetectCyclicDependencies(cfg, order) ==
    RunRoots(cfg, order, 1, [visited |-> {}, path |-> {}, cycles |-> <<>>]).cycles

\* The orders in which Go's map iteration can yield the services.
Orders(services) ==
    {o \in [1..Cardinality(services) -> services] :
        \A i, j \in 1..Cardinality(services) : i # j => o[i] # o[j]}

----------------------------------------------------------------------------
\* Existence check and graph query.

\* The issue string of a dependency that is no service, as the pieces
\* Sprintf puts together.
Issue(serviceName, dependencyName) ==
    <<"Service '", serviceName, "' depends on '", dependencyName,
      "', but this service doesn't exist in azure.yaml">>

\* IssuesOf with the loop over a service's dependencies left at the first
\* missing one.
RECURSIVE IssuesOfFirstOnly(_, _, _)
IssuesOfFirstOnly(cfg, serviceName, i) ==
    IF i > Len(cfg[serviceName].DependsOn)
    THEN <<>>
    ELSE IF cfg[serviceName].DependsOn[i] \notin DOMAIN cfg
         THEN <<Issue(serviceName, cfg[serviceName].DependsOn[i])>>
         ELSE IssuesOfFirstOnly(cfg, serviceName, i + 1)

\* The issues ValidateServiceDependencies appends for one service, from the
\* i-th of its dependencies on.
RECURSIVE IssuesOf(_, _, _)
IssuesOf(cfg, serviceName, i) ==
    IF i > Len(cfg[serviceName].DependsOn)
    THEN <<>>
    ELSE LET dependencyName == cfg[serviceName].DependsOn[i]
         IN  (IF dependencyName \notin DOMAIN cfg
              THEN <<Issue(serviceName, dependencyName)>>
              ELSE <<>>)
             \o IssuesOf(cfg, serviceName, i + 1)

\* The issues of one service, from its first dependency on.
ServiceIssues(cfg, serviceName) == IssuesOf(cfg, serviceName, 1)

\* ValidateServiceDependencies, the services iterated in the given order.
RECURSIVE ValidateFrom(_, _, _)
ValidateFrom(cfg, order, i) ==
    IF i > Len(order)
    THEN <<>>
    ELSE ServiceIssues(cfg, order[i]) \o ValidateFrom(cfg, order, i + 1)

ValidateServiceDependencies(cfg, order) ==
    IF DOMAIN cfg = {} THEN <<>> ELSE ValidateFrom(cfg, order, 1)

\* BuildDependencyGraph with the DependsOn field passed through as it is.
BuildDependencyGraphAsIs(cfg) == [serviceName \in DOMAIN cfg |-> cfg[serviceName]]

\* BuildDependencyGraph: service |-> slice, the service's own slice when it
\* has entries and a new empty slice otherwise.
BuildDependencyGraph(cfg) ==
    [serviceName \in DOMAIN cfg |->
        IF ~cfg[serviceName].isNil /\ Len(cfg[serviceName].DependsOn) > 0
        THEN cfg[serviceName]
        ELSE Deps(<<>>)]

----------------------------------------------------------------------------
\* Provider-specific dependency handlers.  A provider key is kept as the
\* sequence of its characters; a formatted expression is kept as the sequence
\* of the pieces Sprintf and strings.Join put together, its text being their
\* concatenation in order.

UpperLetters ==
    <<"A", "B", "C", "D", "E", "F", "G", "H", "I", "J", "K", "L", "M",
      "N", "O", "P", "Q", "R", "S", "T", "U", "V", "W", "X", "Y", "Z">>

LowerLetters ==
    <<"a", "b", "c", "d", "e", "f", "g", "h", "i", "j", "k", "l", "m",
      "n", "o", "p", "q", "r", "s", "t", "u", "v", "w", "x", "y", "z">>

\* unicode.ToLower on the characters of the keys.
ToLowerChar(c) ==
    IF \E i \in 1..Len(UpperLetters) : UpperLetters[i] = c
    THEN LowerLetters[CHOOSE i \in 1..Len(UpperLetters) : UpperLetters[i] = c]
    ELSE c

\* strings.ToLower
ToLower(str) == [i \in 1..Len(str) |-> ToLowerChar(str[i])]

\* GetDependencyHandlerForProvider with the key compared as it is given.
GetDependencyHandlerForProviderExact(provider) ==
    IF provider = <<"t", "e", "r", "r", "a", "f", "o", "r", "m">> THEN "TerraformDependencyHandler"
    ELSE "BicepDependencyHandler"

\* GetDependencyHandlerForProvider: the type of the handler returned.
GetDependencyHandlerForProvider(provider) ==
    LET key == ToLower(provider)
    IN  IF key = <<"t", "e", "r", "r", "a", "f", "o", "r", "m">>
        THEN "TerraformDependencyHandler"
        ELSE IF key = <<"b", "i", "c", "e", "p">> \/ key = <<>>
        THEN "BicepDependencyHandler"
        ELSE "BicepDependencyHandler"

\* Join with the separator left out.
RECURSIVE JoinUnseparated(_, _, _)
JoinUnseparated(items, sep, i) ==
    IF i > Len(items) THEN <<>>
    ELSE items[i] \o JoinUnseparated(items, sep, i + 1)

\* strings.Join of the items from the i-th on.
RECURSIVE Join(_, _, _)
Join(items, sep, i) ==
    IF i > Len(items) THEN <<>>
    ELSE IF i = Len(items) THEN items[i]
    ELSE items[i] \o <<sep>> \o Join(items, sep, i + 1)

\* BicepDependencyHandler.FormatDependsOnExpression
BicepFormatDependsOnExpression(service, dependencies) ==
    IF Len(dependencies.DependsOn) = 0
    THEN <<>>
    ELSE LET dependsOnItems ==
                 [i \in 1..Len(dependencies.DependsOn) |->
                     <<"resource_", dependencies.DependsOn[i], ".id">>]
         IN  <<"dependsOn: [">> \o Join(dependsOnItems, ", ", 1) \o <<"]">>

\* TerraformDependencyHandler.FormatDependsOnExpression
TerraformFormatDependsOnExpression(service, dependencies) ==
    IF Len(dependencies.DependsOn) = 0
    THEN <<>>
    ELSE LET dependsOnItems ==
                 [i \in 1..Len(dependencies.DependsOn) |->
                     <<"module.", dependencies.DependsOn[i]>>]
         IN  <<"depends_on = [">> \o Join(dependsOnItems, ", ", 1) \o <<"]">>

\* h.FormatDependsOnExpression, dispatched on the type of the handler.
FormatDependsOnExpression(handler, service, dependencies) ==
    IF handler = "TerraformDependencyHandler"
    THEN TerraformFormatDependsOnExpression(service, dependencies)
    ELSE BicepFormatDependsOnExpression(service, dependencies)

\* BuildBicepDependsOn with the prefix dropped: the expression of the simple
\* handler.
BuildBicepDependsOnUnprefixed(dependencies, resourcePrefix) ==
    BicepFormatDependsOnExpression("", dependencies)

\* BuildBicepDependsOn
BuildBicepDependsOn(dependencies, resourcePrefix) ==
    IF Len(dependencies.DependsOn) = 0
    THEN <<>>
    ELSE LET dependsOnItems ==
                 [i \in 1..Len(dependencies.DependsOn) |->
                     <<resourcePrefix, "_", dependencies.DependsOn[i], ".id">>]
         IN  <<"dependsOn: [">> \o Join(dependsOnItems, ", ", 1) \o <<"]">>

\* BuildTerraformDependsOn
BuildTerraformDependsOn(dependencies, modulePrefix) ==
    IF Len(dependencies.DependsOn) = 0
    THEN <<>>
    ELSE LET dependsOnItems ==
                 [i \in 1..Len(dependencies.DependsOn) |->
                     <<"module.", modulePrefix, "_", dependencies.DependsOn[i]>>]
         IN  <<"depends_on = [">> \o Join(dependsOnItems, ", ", 1) \o <<"]">>

----------------------------------------------------------------------------
\* Results of a command.

Ok == [status |-> "ok", msg |-> "", service |-> "", other |-> ""]

Cancelled == [status |-> "cancelled", msg |-> "Dependency removal cancelled",
              service |-> "", other |-> ""]

Err(m, s, o) == [status |-> "error", msg |-> m, service |-> s, other |-> o]

NoResult == [status |-> "none", msg |-> "", service |-> "", other |-> ""]

VARIABLES
    manifest,       \* the persisted project: service |-> dependsOn field
    cmd,            \* the last command run: "none", "add", "remove", "list"
    force,          \* its --force flag, a.flags.force
    srcService,     \* the source service named or selected ("" if none was)
    destService,    \* the target service named or selected ("" if none was)
    loaded,         \* the project as project.Load returned it
    projectConfig,  \* the in-memory project when the command returned
    result,         \* what the command returned
    saveCalls,      \* number of project.Save calls it made
    confirmCalls,   \* number of console.Confirm prompts it issued
    answer,         \* the console's answer to the prompt: "none", "yes", "no"
    dupLimit,       \* per service and name: the occurrences of the name in
                    \* the service's list in the manifest as first loaded,
                    \* or 1 when that is less
    views,          \* what `dep list` handed to the formatter
    call,           \* a call of a library function: its name and arguments
    returned,       \* whether the call has returned
    ret,            \* what it returned
    test,           \* a run of TestDepCommands: the services it names, the
                    \* step it is at, the steps whose require failed
    run,            \* DetectCyclicDependencies in execution: its maps, its
                    \* cycles slice and the frames of the dfs closure
    procs           \* invocations of commands running at the same time:
                    \* what each was started with and how far it is

cmdVars == <<manifest, cmd, force, srcService, destService, loaded,
             projectConfig, result, saveCalls, confirmCalls, answer,
             dupLimit, views>>

libVars == <<call, returned, ret>>

stepVars == <<run, procs>>

vars == <<cmdVars, libVars, test, stepVars>>

\* No library call is made.
NoCall == [op |-> "none"]

LibIdle ==
    /\ call = NoCall
    /\ returned = FALSE
    /\ ret = <<>>

\* No test is run.
NoTest == [step |-> 0]

\* No call is in execution.
NoRun == [state |-> "idle"]

\* No invocations run at the same time.
NoProcs == <<>>

StepsIdle ==
    /\ run = NoRun
    /\ procs = NoProcs

----------------------------------------------------------------------------
\* What one run of a command comes to: the services it settled on, the
\* in-memory project at return, the result, and the calls it made to
\* project.Save and console.Confirm.
Outcome(src, dest, cfg, res, saves, confirms) ==
    [src |-> src, dest |-> dest, config |-> cfg, result |-> res,
     saves |-> saves, confirms |-> confirms, answer |-> "none"]

\* The same for a run that asked console.Confirm and was answered.
Answered(out, confirmed) ==
    [out EXCEPT !.confirms = 1, !.answer = IF confirmed THEN "yes" ELSE "no"]

\* The positional arguments cobra lets through (at most two).
ArgLists == SeqsUpTo(2)

\* The i-th positional argument, "" when it was not given.
Given(a, i) == IF Len(a) >= i THEN a[i] ELSE ""

\* MissingService with the target looked up before the source.
MissingServiceTargetFirst(cfg, src, dest) ==
    IF dest \notin DOMAIN cfg THEN dest
    ELSE IF src \notin DOMAIN cfg THEN src
    ELSE ""

\* MissingService with the target not looked up.
MissingServiceSourceOnly(cfg, src, dest) ==
    IF src \notin DOMAIN cfg THEN src ELSE ""

\* The service `dep add` reports as not found: the source when it is no
\* service, else the target when it is none, else "".
MissingService(cfg, src, dest) ==
    IF src \notin DOMAIN cfg THEN src
    ELSE IF dest \notin DOMAIN cfg THEN dest
    ELSE ""

\* AddConflict with an existing edge never reported.
AddConflictNever(cfg, src, dest, f) == FALSE

\* `dep add`: the existing-edge check; an edge that exists is an error
\* unless --force is given.
AddConflict(cfg, src, dest, f) ==
    /\ Contains(cfg[src].DependsOn, dest)
    /\ ~f

\* AddDependency with the target put in front of the list.
AddDependencyPrepend(cfg, src, dest) ==
    IF Contains(cfg[src].DependsOn, dest)
    THEN cfg
    ELSE [cfg EXCEPT ![src] = Deps(<<dest>> \o cfg[src].DependsOn)]

\* AddDependency without the check for duplicates.
AddDependencyReappend(cfg, src, dest) ==
    [cfg EXCEPT ![src] = Deps(Append(cfg[src].DependsOn, dest))]

\* `dep add`: the in-memory mutation.
\* AddDependency with the target appended to the list of every service.
AddDependencyEverywhere(cfg, src, dest) ==
    [s \in DOMAIN cfg |-> Deps(Append(cfg[s].DependsOn, dest))]

AddDependency(cfg, src, dest) ==
    IF cfg[src].isNil
    THEN [cfg EXCEPT ![src] = Deps(<<dest>>)]
    ELSE IF Contains(cfg[src].DependsOn, dest)
         THEN cfg
         ELSE [cfg EXCEPT ![src] = Deps(Append(cfg[src].DependsOn, dest))]

\* Options of the second Select prompt of `dep add`: every service but the
\* source.
possibleDeps(cfg, src) == DOMAIN cfg \ {src}

\* depAddAction.Run on the loaded project cfg with arguments a, flag f and
\* the console's answers sel1, sel2 to the two Select prompts.
depAddRun(cfg, a, f, sel1, sel2) ==
    LET src  == IF Len(a) >= 1 THEN a[1] ELSE sel1
        dest == IF Len(a) >= 2 THEN a[2] ELSE sel2
    IN  IF DOMAIN cfg = {}
        THEN Outcome(Given(a, 1), Given(a, 2), cfg,
                     Err("no services defined in project", "", ""), 0, 0)
        ELSE IF Len(a) < 2 /\ src \notin DOMAIN cfg
        THEN Outcome(src, "", cfg, Err("not found in project", src, ""), 0, 0)
        ELSE IF Len(a) < 2 /\ possibleDeps(cfg, src) = {}
        THEN Outcome(src, "", cfg,
                     Err("no other services available to depend on", "", ""), 0, 0)
        ELSE IF MissingService(cfg, src, dest) # ""
        THEN Outcome(src, dest, cfg,
                     Err("not found in project", MissingService(cfg, src, dest), ""),
                     0, 0)
        ELSE IF AddConflict(cfg, src, dest, f)
        THEN Outcome(src, dest, cfg, Err("already depends on", src, dest), 0, 0)
        ELSE Outcome(src, dest, AddDependency(cfg, src, dest), Ok, 1, 0)

\* RemoveDependency with every entry equal to the one found removed.
RemoveDependencyEvery(cfg, src, foundIndex) ==
    LET old  == cfg[src].DependsOn
        rest == SelectSeq(old, LAMBDA d : d # old[foundIndex])
    IN  [cfg EXCEPT ![src] = IF Len(rest) = 0 THEN NilDeps ELSE Deps(rest)]

\* RemoveDependency without the reset of an emptied list to nil.
RemoveDependencyKeepsEmpty(cfg, src, foundIndex) ==
    [cfg EXCEPT ![src] = Deps(RemoveAt(cfg[src].DependsOn, foundIndex))]

\* `dep remove`: the in-memory mutation, given the index found.
\* RemoveDependency with the first entry removed, whichever was found.
RemoveDependencyFirst(cfg, src, foundIndex) ==
    LET rest == RemoveAt(cfg[src].DependsOn, 1)
    IN  [cfg EXCEPT ![src] = IF Len(rest) = 0 THEN NilDeps ELSE Deps(rest)]

RemoveDependency(cfg, src, foundIndex) ==
    LET rest == RemoveAt(cfg[src].DependsOn, foundIndex)
    IN  [cfg EXCEPT ![src] = IF Len(rest) = 0 THEN NilDeps ELSE Deps(rest)]

\* NeedsConfirm with the flag ignored.
NeedsConfirmAlways(f) == TRUE

\* `dep remove`: whether console.Confirm is asked.
NeedsConfirm(f) == ~f

\* NoDependencies with the check left out.
NoDependenciesNever(existingDeps) == FALSE

\* `dep remove`: the source has nothing to remove.
NoDependencies(existingDeps) == Len(existingDeps) = 0

\* depRemoveRun with console.Confirm asked before the source and the
\* target are looked up.
depRemoveRunConfirmFirst(cfg, a, f, sel1, sel2, confirmed) ==
    LET src  == IF Len(a) >= 1 THEN a[1] ELSE sel1
        dest == IF Len(a) >= 2 THEN a[2] ELSE sel2
        Asked(out) == IF NeedsConfirm(f) THEN Answered(out, confirmed) ELSE out
    IN  IF DOMAIN cfg = {}
        THEN Outcome(Given(a, 1), Given(a, 2), cfg,
                     Err("no services defined in project", "", ""), 0, 0)
        ELSE IF NeedsConfirm(f) /\ ~confirmed
        THEN Asked(Outcome(src, dest, cfg, Cancelled, 0, 0))
        ELSE IF src \notin DOMAIN cfg
        THEN Asked(Outcome(src, dest, cfg, Err("not found in project", src, ""), 0, 0))
        ELSE IF NoDependencies(cfg[src].DependsOn)
        THEN Asked(Outcome(src, dest, cfg,
                           Err("has no dependencies to remove", src, ""), 0, 0))
        ELSE IF IndexOf(cfg[src].DependsOn, dest) = 0
        THEN Asked(Outcome(src, dest, cfg, Err("does not depend on", src, dest), 0, 0))
        ELSE Asked(Outcome(src, dest,
                           RemoveDependency(cfg, src, IndexOf(cfg[src].DependsOn, dest)),
                           Ok, 1, 0))

\* depRemoveAction.Run on the loaded project cfg with arguments a, flag f,
\* the console's answers sel1, sel2 to the Select prompts and its answer
\* confirmed to the Confirm prompt.
depRemoveRun(cfg, a, f, sel1, sel2, confirmed) ==
    LET src  == IF Len(a) >= 1 THEN a[1] ELSE sel1
        dest == IF Len(a) >= 2 THEN a[2] ELSE sel2
    IN  IF DOMAIN cfg = {}
        THEN Outcome(Given(a, 1), Given(a, 2), cfg,
                     Err("no services defined in project", "", ""), 0, 0)
        ELSE IF src \notin DOMAIN cfg
        THEN Outcome(src, IF Len(a) < 2 THEN "" ELSE dest, cfg,
                     Err("not found in project", src, ""), 0, 0)
        ELSE IF NoDependencies(cfg[src].DependsOn)
        THEN Outcome(src, IF Len(a) < 2 THEN "" ELSE dest, cfg,
                     Err("has no dependencies to remove", src, ""), 0, 0)
        ELSE LET foundIndex == IndexOf(cfg[src].DependsOn, dest)
             IN  IF foundIndex = 0
                 THEN Outcome(src, dest, cfg, Err("does not depend on", src, dest), 0, 0)
                 ELSE IF NeedsConfirm(f) /\ ~confirmed
                 THEN Answered(Outcome(src, dest, cfg, Cancelled, 0, 0), FALSE)
                 ELSE LET done == Outcome(src, dest,
                                          RemoveDependency(cfg, src, foundIndex),
                                          Ok, 1, 0)
                      IN  IF NeedsConfirm(f) THEN Answered(done, TRUE) ELSE done

----------------------------------------------------------------------------
\* `dep list`.

\* The service names in the order of Go's string comparison.
NameOrder == <<"api", "database", "web">>

\* The entries of the list that sort.Strings puts from the i-th name of the
\* string order on: the occurrences of each name, the names in order.
RECURSIVE SortedFrom(_, _)
SortedFrom(list, i) ==
    IF i > Len(NameOrder)
    THEN <<>>
    ELSE SelectSeq(list, LAMBDA d : d = NameOrder[i]) \o SortedFrom(list, i + 1)

\* sort.Strings
SortStrings(list) == SortedFrom(list, 1)

\* RequiredByFrom with the relation recorded in the wrong direction: the
\* services name lists instead of the services that list name.
RequiredByFromDependencies(cfg, order, i, name) ==
    SelectSeq(cfg[name].DependsOn, LAMBDA d : d \in DOMAIN cfg)

\* What the populate loop appends to the RequiredBy of the view of name, from
\* the i-th service iterated on: the service once per entry of its list that
\* is name.
RECURSIVE RequiredByFrom(_, _, _, _)
RequiredByFrom(cfg, order, i, name) ==
    IF i > Len(order)
    THEN <<>>
    ELSE LET serviceName == order[i]
             hits == SelectSeq(cfg[serviceName].DependsOn, LAMBDA d : d = name)
         IN  [k \in 1..Len(hits) |-> serviceName]
             \o RequiredByFrom(cfg, order, i + 1, name)

\* serviceViews after the two loops over the services, the second one
\* iterating in the given order.
serviceViews(cfg, order) ==
    [name \in DOMAIN cfg |->
        [Service    |-> name,
         DependsOn  |-> IF ~cfg[name].isNil /\ Len(cfg[name].DependsOn) > 0
                        THEN cfg[name].DependsOn
                        ELSE <<>>,
         RequiredBy |-> RequiredByFrom(cfg, order, 1, name)]]

\* The view with its two lists sorted for display.
SortedView(view) ==
    [view EXCEPT !.DependsOn = SortStrings(@), !.RequiredBy = SortStrings(@)]

\* The positional arguments cobra lets through to `dep list` (at most one).
ListArgLists == SeqsUpTo(1)

\* depListAction.Run on the loaded project cfg with arguments a, the services
\* iterated in the given order.  sort.Strings sorts view.DependsOn in place,
\* and a non-empty view.DependsOn is the service's own slice.
depListRun(cfg, a, order) ==
    IF DOMAIN cfg = {}
    THEN [config |-> cfg, views |-> <<>>,
          result |-> Err("no services defined in project", "", "")]
    ELSE IF Len(a) = 1 /\ a[1] \notin DOMAIN cfg
    THEN [config |-> cfg, views |-> <<>>,
          result |-> Err("not found in project", a[1], "")]
    ELSE LET shown == IF Len(a) = 1 THEN <<a[1]>> ELSE SortStrings(order)
         IN  [config |-> [name \in DOMAIN cfg |->
                             IF Contains(shown, name) /\ Len(cfg[name].DependsOn) > 0
                             THEN Deps(SortStrings(cfg[name].DependsOn))
                             ELSE cfg[name]],
              views  |-> [k \in 1..Len(shown) |->
                             SortedView(serviceViews(cfg, order)[shown[k]])],
              result |-> Ok]

----------------------------------------------------------------------------
\* The answers the console can give to the Select prompts a run reaches
\* ("" where the prompt is not reached).

\* First prompt of both commands: one of the services.
SrcChoices(cfg, a) ==
    IF Len(a) = 0 /\ DOMAIN cfg # {} THEN DOMAIN cfg ELSE {""}

\* Second prompt of `dep add`: one of possibleDeps.
AddDestChoices(cfg, a, src) ==
    IF Len(a) < 2 /\ src \in DOMAIN cfg /\ possibleDeps(cfg, src) # {}
    THEN possibleDeps(cfg, src)
    ELSE {""}

\* Second prompt of `dep remove`: one of the source's dependencies.
RemoveDestChoices(cfg, a, src) ==
    IF Len(a) < 2 /\ src \in DOMAIN cfg /\ Len(cfg[src].DependsOn) > 0
    THEN {cfg[src].DependsOn[i] : i \in 1..Len(cfg[src].DependsOn)}
    ELSE {""}

\* The answer to the Confirm prompt of `dep remove` (FALSE where the prompt
\* is not reached).
ConfirmChoices(cfg, f, src, dest) ==
    IF /\ NeedsConfirm(f)
       /\ src \in DOMAIN cfg
       /\ Contains(cfg[src].DependsOn, dest)
    THEN BOOLEAN
    ELSE {FALSE}

\* The state after a run of command c that came to out on the project cfg.
Finish(c, f, cfg, out) ==
    /\ cmd' = c
    /\ force' = f
    /\ srcService' = out.src
    /\ destService' = out.dest
    /\ loaded' = cfg
    /\ projectConfig' = out.config
    /\ result' = out.result
    /\ saveCalls' = out.saves
    /\ confirmCalls' = out.confirms
    /\ answer' = out.answer
    /\ manifest' = IF out.saves > 0 THEN Save(out.config) ELSE manifest
    /\ views' = <<>>
    /\ UNCHANGED dupLimit
    /\ UNCHANGED libVars
    /\ UNCHANGED stepVars

Init ==
    /\ manifest \in UNION {Manifests(S) : S \in ServiceSets}
    /\ cmd = "none"
    /\ force = FALSE
    /\ srcService = ""
    /\ destService = ""
    /\ loaded = Load(manifest)
    /\ projectConfig = Load(manifest)
    /\ result = NoResult
    /\ saveCalls = 0
    /\ confirmCalls = 0
    /\ answer = "none"
    /\ dupLimit = [s \in DOMAIN manifest |->
                      [n \in Names |-> Max(1, Count(manifest[s].DependsOn, n))]]
    /\ views = <<>>
    /\ LibIdle
    /\ test = NoTest
    /\ StepsIdle

\* azd dep add [source] [target] [--force]
DepAdd ==
    \E a \in ArgLists, f \in BOOLEAN :
        \E cfg \in {Load(manifest)} :
            \E sel1 \in SrcChoices(cfg, a) :
                LET src == IF Len(a) >= 1 THEN a[1] ELSE sel1
                IN  \E sel2 \in AddDestChoices(cfg, a, src) :
                        \E out \in {depAddRun(cfg, a, f, sel1, sel2)} :
                            /\ Finish("add", f, cfg, out)
                            /\ UNCHANGED test

\* azd dep remove [source] [target] [--force]
DepRemove ==
    \E a \in ArgLists, f \in BOOLEAN :
        \E cfg \in {Load(manifest)} :
            \E sel1 \in SrcChoices(cfg, a) :
                LET src == IF Len(a) >= 1 THEN a[1] ELSE sel1
                IN  \E sel2 \in RemoveDestChoices(cfg, a, src) :
                        LET dest == IF Len(a) >= 2 THEN a[2] ELSE sel2
                        IN  \E confirmed \in ConfirmChoices(cfg, f, src, dest) :
                                \E out \in {depRemoveRun(cfg, a, f, sel1, sel2,
                                                         confirmed)} :
                                    /\ Finish("remove", f, cfg, out)
                                    /\ UNCHANGED test

\* The state after a run of `dep list` with arguments a that came to out on
\* the project cfg.
ListFinish(a, cfg, out) ==
    /\ cmd' = "list"
    /\ force' = FALSE
    /\ srcService' = Given(a, 1)
    /\ destService' = ""
    /\ loaded' = cfg
    /\ projectConfig' = out.config
    /\ result' = out.result
    /\ views' = out.views
    /\ saveCalls' = 0
    /\ confirmCalls' = 0
    /\ answer' = "none"
    /\ UNCHANGED <<manifest, dupLimit>>
    /\ UNCHANGED libVars
    /\ UNCHANGED stepVars

\* azd dep list [service]
DepList ==
    \E a \in ListArgLists :
        \E cfg \in {Load(manifest)} :
            \E order \in Orders(DOMAIN cfg) :
                \E out \in {depListRun(cfg, a, order)} :
                    /\ ListFinish(a, cfg, out)
                    /\ UNCHANGED test

Next == DepAdd \/ DepRemove \/ DepList

Spec == Init /\ [][Next]_vars

TypeOK ==
    /\ cmd \in {"none", "add", "remove", "list"}
    /\ DOMAIN manifest \in ServiceSets
    /\ saveCalls \in 0..1
    /\ confirmCalls \in 0..1

----------------------------------------------------------------------------
\* The library functions, each called once on arguments drawn from bounded
\* sets.

\* Largest number of dependsOn entries (over all services) of a project a
\* library function is called on.
MaxGraphEdges == 3

\* Sets of services of those projects; where "database" is not declared it
\* is the name of a service that does not exist.
LibServiceSets == {{}, {"api"}, {"api", "web"}, {"api", "web", "database"}}

\* The projects with the services S and at most budget entries.
RECURSIVE ProjectsOver(_, _)
ProjectsOver(S, budget) ==
    IF S = {}
    THEN {<<>>}
    ELSE LET s == CHOOSE x \in S : TRUE
         IN  UNION {{(s :> v) @@ rest
                        : rest \in ProjectsOver(S \ {s}, budget - Len(v.DependsOn))}
                    : v \in {NilDeps} \cup {Deps(q) : q \in SeqsUpTo(budget)}}

\* The calls of the functions of a project c; those that iterate over its
\* services are called for every order of iteration.
ProjectCalls(c) ==
    {[op |-> op, config |-> c, order |-> o]
        : op \in {"DetectCyclicDependencies", "ValidateServiceDependencies"},
          o \in Orders(DOMAIN c)}
    \cup {[op |-> "BuildDependencyGraph", config |-> c]}

\* Largest number of entries of a dependency list handed to a formatter.
MaxFormatDeps == 3

\* The dependency lists handed to the formatters: nil and the lists of up to
\* MaxFormatDeps names.
FormatDeps == {NilDeps} \cup {Deps(q) : q \in SeqsUpTo(MaxFormatDeps)}

\* Upper-case letter of a lower-case one.
ToUpperChar(c) ==
    IF \E i \in 1..Len(LowerLetters) : LowerLetters[i] = c
    THEN UpperLetters[CHOOSE i \in 1..Len(LowerLetters) : LowerLetters[i] = c]
    ELSE c

\* The spellings of a lower-case word in every mix of upper and lower case.
RECURSIVE Casings(_)
Casings(word) ==
    IF Len(word) = 0
    THEN {<<>>}
    ELSE {<<c>> \o rest : c \in {word[1], ToUpperChar(word[1])},
                          rest \in Casings(Tail(word))}

\* Keys that are no spelling of a provider the switch knows.
OtherKeys ==
    {<<>>, <<"a", "r", "m">>, <<"P", "u", "l", "u", "m", "i">>, <<"t", "e", "r", "r", "a", "f", "o", "r">>, <<"t", "e", "r", "r", "a", "f", "o", "r", "m", "s">>, <<"t", "e", "r", "r", "a", "f", "o", "r", "m", " ">>, <<"t", "e", "r", "r", "a", "-", "f", "o", "r", "m">>, <<"B", "i", "c", "e", "p", "p">>}

\* The provider keys GetDependencyHandlerForProvider is called with.
ProviderKeys == Casings(<<"t", "e", "r", "r", "a", "f", "o", "r", "m">>) \cup Casings(<<"b", "i", "c", "e", "p">>) \cup OtherKeys

\* The service argument of FormatDependsOnExpression.
FormatServices == Names \cup {""}

\* The prefixes handed to BuildBicepDependsOn and BuildTerraformDependsOn.
Prefixes == {"", "resource", "svc"}

\* The calls of the handlers and formatters.
HandlerCalls ==
    {[op |-> "GetDependencyHandlerForProvider", provider |-> k] : k \in ProviderKeys}
    \cup {[op |-> "FormatDependsOnExpression", handler |-> h, service |-> sv,
           dependencies |-> d]
             : h \in {"BicepDependencyHandler", "TerraformDependencyHandler"},
               sv \in FormatServices, d \in FormatDeps}
    \cup {[op |-> o, dependencies |-> d, prefix |-> x]
             : o \in {"BuildBicepDependsOn", "BuildTerraformDependsOn"},
               d \in FormatDeps, x \in Prefixes}

\* No command has run on the (empty) manifest.
CmdIdle ==
    /\ manifest = <<>>
    /\ cmd = "none"
    /\ force = FALSE
    /\ srcService = ""
    /\ destService = ""
    /\ loaded = <<>>
    /\ projectConfig = <<>>
    /\ result = NoResult
    /\ saveCalls = 0
    /\ confirmCalls = 0
    /\ answer = "none"
    /\ dupLimit = <<>>
    /\ views = <<>>
    /\ test = NoTest

InitLib ==
    /\ CmdIdle
    /\ \/ \E S \in LibServiceSets :
              \E c \in ProjectsOver(S, MaxGraphEdges) :
                  call \in ProjectCalls(c)
       \/ call \in HandlerCalls
    /\ returned = FALSE
    /\ ret = <<>>
    /\ StepsIdle

\* The call returns v.
Return(v) ==
    /\ ~returned
    /\ returned' = TRUE
    /\ ret' = v
    /\ UNCHANGED call
    /\ UNCHANGED cmdVars
    /\ UNCHANGED test
    /\ UNCHANGED stepVars

CallDetectCyclicDependencies ==
    /\ call.op = "DetectCyclicDependencies"
    /\ Return(DetectCyclicDependencies(call.config, call.order))

CallValidateServiceDependencies ==
    /\ call.op = "ValidateServiceDependencies"
    /\ Return(ValidateServiceDependencies(call.config, call.order))

CallBuildDependencyGraph ==
    /\ call.op = "BuildDependencyGraph"
    /\ Return(BuildDependencyGraph(call.config))

CallGetDependencyHandlerForProvider ==
    /\ call.op = "GetDependencyHandlerForProvider"
    /\ Return(GetDependencyHandlerForProvider(call.provider))

CallFormatDependsOnExpression ==
    /\ call.op = "FormatDependsOnExpression"
    /\ Return(FormatDependsOnExpression(call.handler, call.service,
                                        call.dependencies))

CallBuildBicepDependsOn ==
    /\ call.op = "BuildBicepDependsOn"
    /\ Return(BuildBicepDependsOn(call.dependencies, call.prefix))

CallBuildTerraformDependsOn ==
    /\ call.op = "BuildTerraformDependsOn"
    /\ Return(BuildTerraformDependsOn(call.dependencies, call.prefix))

NextLib ==
    \/ CallDetectCyclicDependencies
    \/ CallValidateServiceDependencies
    \/ CallBuildDependencyGraph
    \/ CallGetDependencyHandlerForProvider
    \/ CallFormatDependsOnExpression
    \/ CallBuildBicepDependsOn
    \/ CallBuildTerraformDependsOn

SpecLib == InitLib /\ [][NextLib]_vars

----------------------------------------------------------------------------
\* TestDepCommands: the four subtests run in order on one manifest.  The test
\* names api, database and web; here it is run for any source s and any two
\* distinct targets t1, t2 among the three services (the test's own run is
\* s = api, t1 = database, t2 = web).

\* A command of the test: rootCmd.SetArgs, Execute, require.NoError.
TestCmd(sub, op, args, f) ==
    [sub |-> sub, op |-> op, args |-> args, force |-> f,
     has |-> {}, hasNot |-> {}, empty |-> FALSE]

\* A verification of the test: LoadProjectConfig and the require.Contains,
\* require.NotContains and require.Empty on the DependsOn of s.
TestRequire(sub, has, hasNot, empty) ==
    [sub |-> sub, op |-> "require", args |-> <<>>, force |-> FALSE,
     has |-> has, hasNot |-> hasNot, empty |-> empty]

\* The steps of the test.
TestScript(s, t1, t2) ==
    << TestCmd("DepAdd", "add", <<s, t1>>, FALSE),
       TestRequire("DepAdd", {t1}, {}, FALSE),
       TestCmd("DepAdd", "add", <<s, t1>>, TRUE),
       TestCmd("DepAdd", "add", <<s, t2>>, FALSE),
       TestRequire("DepAdd", {t1, t2}, {}, FALSE),
       TestCmd("DepList", "add", <<s, t1>>, FALSE),
       TestCmd("DepList", "add", <<t2, s>>, FALSE),
       TestCmd("DepList", "list", <<>>, FALSE),
       TestCmd("DepList", "list", <<s>>, FALSE),
       TestCmd("DepRemove", "add", <<s, t1>>, TRUE),
       TestCmd("DepRemove", "add", <<s, t2>>, TRUE),
       TestRequire("DepRemove", {t1, t2}, {}, FALSE),
       TestCmd("DepRemove", "remove", <<s, t1>>, TRUE),
       TestRequire("DepRemove", {t2}, {t1}, FALSE),
       TestCmd("DepRemoveAll", "add", <<s, t1>>, TRUE),
       TestCmd("DepRemoveAll", "add", <<s, t2>>, TRUE),
       TestCmd("DepRemoveAll", "remove", <<s, t2>>, TRUE),
       TestRequire("DepRemoveAll", {}, {}, TRUE) >>

Script == TestScript(test.s, test.t1, test.t2)

\* The test has a step left to run.
TestRunning == test.step \in 1..Len(Script)

\* The step the test is at.
TestNow == Script[test.step]

\* The first step of the subtest after the one the step i belongs to (past
\* the last step when there is none).
RECURSIVE NextSubtest(_, _)
NextSubtest(script, i) ==
    IF i + 1 > Len(script) \/ script[i + 1].sub # script[i].sub
    THEN i + 1
    ELSE NextSubtest(script, i + 1)

\* A require of the step the test is at passed or failed: a failed require
\* ends the subtest, and the test goes on with the next subtest.
Required(passed) ==
    test' = IF passed
            THEN [test EXCEPT !.step = @ + 1]
            ELSE [test EXCEPT !.step = NextSubtest(Script, @),
                              !.failed = @ \cup {test.step}]

\* The project as the test writes it: the three services, no dependsOn keys.
TestManifest == [name \in Names |-> NilDeps]

InitTest ==
    /\ manifest = TestManifest
    /\ cmd = "none"
    /\ force = FALSE
    /\ srcService = ""
    /\ destService = ""
    /\ loaded = Load(manifest)
    /\ projectConfig = Load(manifest)
    /\ result = NoResult
    /\ saveCalls = 0
    /\ confirmCalls = 0
    /\ answer = "none"
    /\ dupLimit = [s \in Names |-> [n \in Names |-> 1]]
    /\ views = <<>>
    /\ LibIdle
    /\ StepsIdle
    /\ \E s \in Names, t1 \in Names :
          \E t2 \in Names \ {t1} :
              test = [s |-> s, t1 |-> t1, t2 |-> t2, step |-> 1, failed |-> {}]

\* rootCmd.Execute of the command of the step, and the require.NoError on
\* what it returned.
TestCommand ==
    /\ TestRunning
    /\ TestNow.op # "require"
    /\ LET c   == TestNow
           cfg == Load(manifest)
       IN  IF c.op = "list"
           THEN \E order \in Orders(DOMAIN cfg) :
                    \E out \in {depListRun(cfg, c.args, order)} :
                        /\ ListFinish(c.args, cfg, out)
                        /\ Required(out.result.status # "error")
           ELSE \E out \in {IF c.op = "add"
                            THEN depAddRun(cfg, c.args, c.force, "", "")
                            ELSE depRemoveRun(cfg, c.args, c.force, "", "", FALSE)} :
                    /\ Finish(c.op, c.force, cfg, out)
                    /\ Required(out.result.status # "error")

\* LoadProjectConfig and the requires on the DependsOn of s.
TestVerify ==
    /\ TestRunning
    /\ TestNow.op = "require"
    /\ LET c    == TestNow
           deps == Load(manifest)[test.s].DependsOn
       IN  Required(/\ \A d \in c.has : Contains(deps, d)
                    /\ \A d \in c.hasNot : ~Contains(deps, d)
                    /\ c.empty => Len(deps) = 0)
    /\ UNCHANGED cmdVars
    /\ UNCHANGED libVars
    /\ UNCHANGED stepVars

NextTest == TestCommand \/ TestVerify

SpecTest == InitTest /\ [][NextTest]_vars

----------------------------------------------------------------------------
\* DetectCyclicDependencies step by step, and the read-only functions
\* called one after the other on the same project.

\* Largest number of entries of the projects the functions are stepped on.
MaxRunEdges == 3

\* The sets of services of those projects; "database" is a name that a
\* dependency list can hold and no service bears.
RunServiceSets == {{}, {"api"}, {"api", "web"}}

\* Nothing has been called on the project yet.
FirstRun ==
    [state |-> "ready", calls |-> "none", prev |-> "none", order |-> <<>>,
     next |-> 1, visited |-> {}, path |-> {}, cycles |-> <<>>,
     frames |-> <<>>, returning |-> FALSE, expanded |-> <<>>, roots |-> <<>>]

\* The next call, after none or one.
NextCall(calls) == IF calls = "none" THEN "first" ELSE "second"

\* NewRun with the visited map living on from the call before.
NewRunKeepsVisited(r, order) ==
    [r EXCEPT !.state = "detect", !.calls = NextCall(@), !.order = order,
              !.next = 1, !.path = {}, !.cycles = <<>>,
              !.frames = <<>>, !.returning = FALSE,
              !.expanded = <<>>, !.roots = <<>>]

\* DetectCyclicDependencies is entered: its cycles slice and its visited
\* and path maps are made anew; the services will be iterated in order.
NewRun(r, order) ==
    [r EXCEPT !.state = "detect", !.calls = NextCall(@), !.order = order,
              !.next = 1, !.visited = {}, !.path = {}, !.cycles = <<>>,
              !.frames = <<>>, !.returning = FALSE,
              !.expanded = <<>>, !.roots = <<>>]

\* ShouldStartRoot without the test of the visited map.
ShouldStartRootAlways(r, service) == TRUE

\* The root loop calls dfs for a service that is not visited.
ShouldStartRoot(r, service) == service \notin r.visited

\* dfs(current, stack) is called: an unvisited name is marked visited and
\* on-path and gets a frame with the stack extended by it; for a visited
\* name dfs returns false at once.
Enter(r, current, stack) ==
    IF current \notin r.visited
    THEN [r EXCEPT !.visited = @ \cup {current},
                   !.path = @ \cup {current},
                   !.frames = Append(@, [current |-> current,
                                         stack |-> Append(stack, current),
                                         i |-> 1]),
                   !.expanded = Append(@, current)]
    ELSE IF r.frames = <<>>
    THEN [r EXCEPT !.next = @ + 1]
    ELSE [r EXCEPT !.frames[Len(r.frames)].i = @ + 1]

\* The innermost call of dfs returns: its frame goes; the root loop moves
\* on whatever was returned, a calling dfs moves on after false and returns
\* true itself after true.
Leave(r, found) ==
    LET frames == SubSeq(r.frames, 1, Len(r.frames) - 1)
    IN  IF frames = <<>>
        THEN [r EXCEPT !.frames = frames, !.returning = FALSE, !.next = @ + 1]
        ELSE IF found
        THEN [r EXCEPT !.frames = frames, !.returning = TRUE]
        ELSE [r EXCEPT !.frames = [frames EXCEPT ![Len(frames)].i = @ + 1],
                       !.returning = FALSE]

Top == run.frames[Len(run.frames)]

RunStep(r) ==
    /\ run' = r
    /\ UNCHANGED <<call, returned, ret>>
    /\ UNCHANGED cmdVars
    /\ UNCHANGED <<test, procs>>

InitRun ==
    /\ CmdIdle
    /\ \E S \in RunServiceSets :
           \E c \in ProjectsOver(S, MaxRunEdges) :
               call = [op |-> "none", config |-> c]
    /\ returned = FALSE
    /\ ret = <<>>
    /\ run = FirstRun
    /\ procs = NoProcs

\* A function is called on the project.
Begin(op, r) ==
    /\ run.state = "ready"
    /\ run.calls # "second"
    /\ call' = [op |-> op, config |-> call.config]
    /\ returned' = FALSE
    /\ ret' = <<>>
    /\ run' = [r EXCEPT !.prev = call.op]
    /\ UNCHANGED cmdVars
    /\ UNCHANGED <<test, procs>>

\* The function returns v.
End(v) ==
    /\ returned' = TRUE
    /\ ret' = v
    /\ run' = [run EXCEPT !.state = "ready"]
    /\ UNCHANGED call
    /\ UNCHANGED cmdVars
    /\ UNCHANGED <<test, procs>>

DetectBegin ==
    \E order \in Orders(DOMAIN call.config) :
        Begin("DetectCyclicDependencies", NewRun(run, order))

\* The root loop takes the next service.
DetectRoot ==
    /\ run.state = "detect"
    /\ run.frames = <<>>
    /\ run.next <= Len(run.order)
    /\ LET service == run.order[run.next]
       IN  IF ShouldStartRoot(run, service)
           THEN RunStep(Enter([run EXCEPT !.roots = Append(@, service)],
                              service, <<>>))
           ELSE RunStep([run EXCEPT !.next = @ + 1])

\* The loop of the innermost dfs takes the next dependency.
DetectDep ==
    /\ run.state = "detect"
    /\ run.frames # <<>>
    /\ ~run.returning
    /\ Top.i <= Len(DepsOf(call.config, Top.current))
    /\ LET dep == DepsOf(call.config, Top.current)[Top.i]
       IN  IF dep \notin run.visited
           THEN RunStep(Enter(run, dep, Top.stack))
           ELSE IF dep \in run.path /\ IndexOf(Top.stack, dep) # 0
           THEN RunStep([run EXCEPT !.cycles =
                            Append(@, SubSeq(Top.stack, IndexOf(Top.stack, dep),
                                             Len(Top.stack)) \o <<dep>>),
                                    !.returning = TRUE])
           ELSE RunStep([run EXCEPT !.frames[Len(run.frames)].i = @ + 1])

\* The loop of the innermost dfs is over: current leaves the path and dfs
\* returns false.
DetectBacktrack ==
    /\ run.state = "detect"
    /\ run.frames # <<>>
    /\ ~run.returning
    /\ Top.i > Len(DepsOf(call.config, Top.current))
    /\ RunStep(Leave([run EXCEPT !.path = @ \ {Top.current}], FALSE))

\* A dfs that found a cycle, or whose callee did, returns true.
DetectUnwind ==
    /\ run.state = "detect"
    /\ run.frames # <<>>
    /\ run.returning
    /\ RunStep(Leave(run, TRUE))

\* The root loop is over: the cycles are returned.
DetectEnd ==
    /\ run.state = "detect"
    /\ run.frames = <<>>
    /\ run.next > Len(run.order)
    /\ End(run.cycles)

RunValidateServiceDependencies ==
    /\ \E order \in Orders(DOMAIN call.config) :
           Begin("ValidateServiceDependencies",
                 [run EXCEPT !.state = "validate", !.calls = NextCall(@),
                             !.order = order])
RunBuildDependencyGraph ==
    Begin("BuildDependencyGraph",
          [run EXCEPT !.state = "graph", !.calls = NextCall(@)])

ValidateEnd ==
    /\ run.state = "validate"
    /\ End(ValidateServiceDependencies(call.config, run.order))

GraphEnd ==
    /\ run.state = "graph"
    /\ End(BuildDependencyGraph(call.config))

NextRun ==
    \/ DetectBegin
    \/ DetectRoot
    \/ DetectDep
    \/ DetectBacktrack
    \/ DetectUnwind
    \/ DetectEnd
    \/ RunValidateServiceDependencies
    \/ ValidateEnd
    \/ RunBuildDependencyGraph
    \/ GraphEnd

SpecRun == InitRun /\ [][NextRun]_vars

\* Every call that has begun gets to run.
SpecRunFair == SpecRun /\ WF_vars(NextRun)

----------------------------------------------------------------------------
\* Two invocations of the commands on the same manifest, each a process of
\* its own: it loads the project, runs on its copy and saves the copy.

Procs == {1, 2}

\* What an invocation is started with: `dep add source target` or
\* `dep remove source target --force`.
Invocations ==
    {[op |-> op, a |-> <<s, t>>] : op \in {"add", "remove"}, s \in Names, t \in Names}

NotStarted == [pc |-> "start"]

\* The run of invocation inv on its loaded copy cfg.
InvocationRun(inv, cfg) ==
    IF inv.op = "add"
    THEN depAddRun(cfg, inv.a, FALSE, "", "")
    ELSE depRemoveRun(cfg, inv.a, TRUE, "", "", FALSE)

\* SaveOver with the list of the invocation's source alone written into
\* the manifest as it is at the time of saving.
SaveOverOwnList(current, out) ==
    [s \in DOMAIN current |->
        IF s = out.src THEN Save(out.config)[s] ELSE current[s]]

\* project.Save at the end of an invocation: the whole copy replaces the
\* manifest, whatever the manifest holds by then.
SaveOver(current, out) == Save(out.config)

InitConc ==
    /\ manifest \in UNION {Manifests(S) : S \in ServiceSets}
    /\ cmd = "none"
    /\ force = FALSE
    /\ srcService = ""
    /\ destService = ""
    /\ loaded = <<>>
    /\ projectConfig = <<>>
    /\ result = NoResult
    /\ saveCalls = 0
    /\ confirmCalls = 0
    /\ answer = "none"
    /\ dupLimit = <<>>
    /\ views = <<>>
    /\ LibIdle
    /\ test = NoTest
    /\ run = NoRun
    /\ procs = [original |-> manifest, clock |-> 0, p |-> [i \in Procs |-> NotStarted]]

ProcStep(m, ps) ==
    /\ manifest' = m
    /\ procs' = [ps EXCEPT !.clock = @ + 1]
    /\ UNCHANGED <<cmd, force, srcService, destService, loaded, projectConfig,
                   result, saveCalls, confirmCalls, answer, dupLimit, views>>
    /\ UNCHANGED libVars
    /\ UNCHANGED <<test, run>>

\* Invocation i starts: it loads the manifest and runs on the copy up to
\* the call of project.Save or to its return without one.
ProcLoad(i) ==
    /\ procs.p[i].pc = "start"
    /\ \E inv \in Invocations :
           \E out \in {InvocationRun(inv, Load(manifest))} :
               ProcStep(manifest,
                        [procs EXCEPT !.p[i] =
                            [pc |-> IF out.saves > 0 THEN "loaded" ELSE "done",
                             inv |-> inv, out |-> out,
                             loadedAt |-> procs.clock + 1, savedAt |-> 0]])

\* Invocation i calls project.Save and returns.
ProcSave(i) ==
    /\ procs.p[i].pc = "loaded"
    /\ ProcStep(SaveOver(manifest, procs.p[i].out),
                [procs EXCEPT !.p[i].pc = "done",
                              !.p[i].savedAt = procs.clock + 1])

NextConc == \E i \in Procs : ProcLoad(i) \/ ProcSave(i)

SpecConc == InitConc /\ [][NextConc]_vars

----------------------------------------------------------------------------
\* Properties of the commands.

\* The services of the project the last command loaded.
Services == DOMAIN loaded

\* The last command left the persisted manifest as it found it.
ManifestUnchanged == Load(manifest) = loaded

\* The last command named a source that is a service whose list holds the
\* target it named.
EdgeLoaded ==
    /\ srcService \in Services
    /\ Contains(loaded[srcService].DependsOn, destService)

NotFound(name) == Err("not found in project", name, "")

\* No iteration order makes DetectCyclicDependencies report a cycle.
NoCycleReport(cfg) ==
    \A o \in Orders(DOMAIN cfg) : DetectCyclicDependencies(cfg, o) = <<>>

\* C1: the dep commands prevent circular dependencies: a command that starts
\* on a manifest for which DetectCyclicDependencies reports nothing leaves
\* one for which it reports nothing.
C1_CommandsKeepAcyclic ==
    [][NoCycleReport(Load(manifest)) => NoCycleReport(Load(manifest'))]_vars

C4_ForcedListedTargetNoOp ==
    (cmd = "add" /\ force /\ EdgeLoaded)
    => /\ result = Ok
       /\ projectConfig[srcService].DependsOn = loaded[srcService].DependsOn
       /\ manifest[srcService].DependsOn = loaded[srcService].DependsOn

\* C4 amended: Add with force of a target that is a service and is in
\* source.dependsOn succeeds and leaves source.dependsOn as it was (same
\* entries, same order), in memory and in the saved manifest, each time.
C4_ForcedExistingEdgeNoOp ==
    (cmd = "add" /\ force /\ EdgeLoaded /\ destService \in Services)
    => /\ result = Ok
       /\ projectConfig[srcService].DependsOn = loaded[srcService].DependsOn
       /\ manifest[srcService].DependsOn = loaded[srcService].DependsOn

\* C4 witness: a forced Add of an edge that was there once, and still is once.
C4_ForcedAddRepeated ==
    /\ cmd = "add"
    /\ force
    /\ result = Ok
    /\ EdgeLoaded
    /\ Count(loaded[srcService].DependsOn, destService) = 1
    /\ Count(manifest[srcService].DependsOn, destService) = 1

\* The last Add named a source or a target that is no service.
AddNamesMissing ==
    /\ cmd = "add"
    /\ srcService # ""
    /\ \/ srcService \notin Services
       \/ destService # "" /\ destService \notin Services

\* The 'not found' failure of C5: it names the source when the source is
\* missing and the target otherwise, and nothing is saved.
FailsNotFound ==
    /\ result = NotFound(IF srcService \notin Services THEN srcService
                         ELSE destService)
    /\ saveCalls = 0
    /\ ManifestUnchanged

\* C5 as stated: Add fails with 'not found' naming the missing service
\* whenever source or target is no service.
C5_MissingServiceNotFound == AddNamesMissing => FailsNotFound

\* C5 amended: in a project that declares at least one service, Add fails
\* with 'not found' naming the missing service (the source if it is
\* missing) whenever source or target is no service; nothing is saved.
C5_MissingServiceNotFoundIfAny ==
    (AddNamesMissing /\ Services # {}) => FailsNotFound

\* C5 witness: source and target both missing, the source is the one named.
C5_BothMissingSourceNamed ==
    /\ AddNamesMissing
    /\ Services # {}
    /\ srcService \notin Services
    /\ destService \notin Services
    /\ destService # ""
    /\ srcService # destService
    /\ result = NotFound(srcService)

\* C6: no service's list holds a name more often than it did in the
\* manifest as first loaded, or than once.
C6_NoNewDuplicates ==
    \A s \in DOMAIN manifest : \A n \in Names :
        Count(manifest[s].DependsOn, n) <= dupLimit[s][n]

\* C6 witness: a forced Add named an edge of a list that has grown since it
\* was first loaded.
C6_ForcedAddOnGrownList ==
    /\ cmd = "add"
    /\ force
    /\ result = Ok
    /\ EdgeLoaded
    /\ Len(manifest[srcService].DependsOn) = 2
    /\ \A n \in Names : Count(manifest[srcService].DependsOn, n) <= 1
    /\ saveCalls = 1

\* C7 as stated: after a successful Remove, target does not occur in
\* source.dependsOn.
C7_RemovedTargetGone ==
    (cmd = "remove" /\ result = Ok)
    => ~Contains(manifest[srcService].DependsOn, destService)

\* C7 amended: after a successful Remove, target occurs in source.dependsOn
\* once less than before; it does not occur when it occurred once.
C7_RemovedOneOccurrence ==
    (cmd = "remove" /\ result = Ok)
    => /\ Count(manifest[srcService].DependsOn, destService)
            = Count(loaded[srcService].DependsOn, destService) - 1
       /\ Count(projectConfig[srcService].DependsOn, destService)
            = Count(loaded[srcService].DependsOn, destService) - 1

\* C7 witness: a Remove of a target listed twice.
C7_DuplicateTargetRemoved ==
    /\ cmd = "remove"
    /\ result = Ok
    /\ Count(loaded[srcService].DependsOn, destService) = 2

\* C8: a successful Remove deletes the first entry equal to target: the
\* list is one shorter, the entries before that one and the entries after
\* it are kept in order.
C8_RemovesFirstOccurrence ==
    (cmd = "remove" /\ result = Ok)
    => LET old == loaded[srcService].DependsOn
           new == projectConfig[srcService].DependsOn
       IN  /\ Len(new) = Len(old) - 1
           /\ manifest[srcService].DependsOn = new
           /\ \E k \in 1..Len(old) :
                /\ old[k] = destService
                /\ \A j \in 1..(k - 1) : old[j] # destService /\ new[j] = old[j]
                /\ \A j \in k..Len(new) : new[j] = old[j + 1]

\* C8 witness: the first of two entries was removed, the second is kept.
C8_LaterEntryKept ==
    /\ cmd = "remove"
    /\ result = Ok
    /\ Len(loaded[srcService].DependsOn) = 2
    /\ loaded[srcService].DependsOn[1] = destService
    /\ loaded[srcService].DependsOn[2] # destService
    /\ manifest[srcService].DependsOn = <<loaded[srcService].DependsOn[2]>>

\* The three failures of Remove, in the order the checks are made.
RemoveFailures ==
    /\ srcService \notin Services => result = NotFound(srcService)
    /\ (srcService \in Services /\ Len(loaded[srcService].DependsOn) = 0)
        => result = Err("has no dependencies to remove", srcService, "")
    /\ (/\ srcService \in Services
        /\ Len(loaded[srcService].DependsOn) > 0
        /\ destService # ""
        /\ ~Contains(loaded[srcService].DependsOn, destService))
        => result = Err("does not depend on", srcService, destService)
    /\ result.status = "error" => saveCalls = 0 /\ ManifestUnchanged

\* C9 as stated: Remove fails with 'not found' when source is no service,
\* 'has no dependencies to remove' when its list is empty or absent and
\* 'does not depend on' when target is not in it; nothing is saved.
C9_RemoveFailsDistinctly ==
    (cmd = "remove" /\ srcService # "") => RemoveFailures

\* C9 amended: the same, in a project that declares at least one service.
C9_RemoveFailsDistinctlyIfAny ==
    (cmd = "remove" /\ srcService # "" /\ Services # {}) => RemoveFailures

\* C9 witness: Remove from a service whose list is present and empty.
C9_EmptyListReported ==
    /\ cmd = "remove"
    /\ srcService \in Services
    /\ ~loaded[srcService].isNil
    /\ Len(loaded[srcService].DependsOn) = 0
    /\ destService \in Services
    /\ result.msg = "has no dependencies to remove"

\* C10: a Remove with force asks no confirmation; one without force that
\* found the edge asks once, and when the answer is no it returns the
\* 'cancelled' result, which is no error, without saving and with the
\* project and the manifest as loaded.
C10_DeclineCancels ==
    cmd = "remove"
    => /\ force => confirmCalls = 0 /\ answer = "none"
       /\ (~force /\ EdgeLoaded) => confirmCalls = 1 /\ answer # "none"
       /\ answer = "no"
           => /\ result = Cancelled
              /\ result.status # "error"
              /\ saveCalls = 0
              /\ projectConfig = loaded
              /\ ManifestUnchanged

\* C10 witness: the removal of an existing edge was declined.
C10_Declined ==
    /\ cmd = "remove"
    /\ ~force
    /\ answer = "no"
    /\ EdgeLoaded
    /\ Contains(manifest[srcService].DependsOn, destService)

\* C11: a successful Remove of the only entry of source.dependsOn leaves the
\* field nil, not an empty sequence, in the project that is saved; one that
\* leaves an entry leaves a non-empty sequence.
C11_LastRemovalResetsToNil ==
    (cmd = "remove" /\ result = Ok)
    => LET old == loaded[srcService].DependsOn
           new == projectConfig[srcService]
       IN  /\ saveCalls = 1
           /\ Len(old) = 1 => new = NilDeps /\ manifest[srcService] = NilDeps
           /\ Len(old) > 1 => ~new.isNil /\ Len(new.DependsOn) = Len(old) - 1

\* C11 witness: the only entry of a list was removed.
C11_OnlyEntryRemoved ==
    /\ cmd = "remove"
    /\ result = Ok
    /\ loaded[srcService].DependsOn = <<destService>>
    /\ projectConfig[srcService].isNil

\* The last command was an Add or a Remove that succeeded.
Mutated == cmd \in {"add", "remove"} /\ result = Ok

\* C27: a successful Add or Remove changes nothing but the list of its
\* source: the services are the same and every other service has the entries
\* it had, in the same order, in memory and in the manifest; and the manifest
\* is written by a successful Add or Remove only: list, a failed and a
\* cancelled command never call Save and leave the manifest as it was.
C27_OnlySourceListWritten ==
    /\ Mutated =>
          /\ DOMAIN projectConfig = Services
          /\ DOMAIN manifest = Services
          /\ \A s \in Services \ {srcService} :
                /\ projectConfig[s] = loaded[s]
                /\ manifest[s].DependsOn = loaded[s].DependsOn
    /\ saveCalls > 0 => Mutated
    /\ (cmd = "list" \/ result # Ok) => (saveCalls = 0 /\ ManifestUnchanged)

\* An Add succeeded and was saved while another service had dependencies.
C27_AddedBesideOtherList ==
    /\ cmd = "add"
    /\ result = Ok
    /\ saveCalls = 1
    /\ \E s \in Services \ {srcService} : Len(loaded[s].DependsOn) > 0

\* The entries of the dependsOn lists of cfg, each as service and position,
\* that name no service.
DanglingEntries(cfg) ==
    UNION {{<<s, i>> : i \in {j \in 1..Len(cfg[s].DependsOn) :
                                cfg[s].DependsOn[j] \notin DOMAIN cfg}}
              : s \in DOMAIN cfg}

\* ValidateServiceDependencies finds no issue in cfg.
NoIssues(cfg) ==
    \A o \in Orders(DOMAIN cfg) : ValidateServiceDependencies(cfg, o) = <<>>

\* C28: the commands preserve referential integrity: a command leaves the
\* set of services it loaded, a project in which ValidateServiceDependencies
\* finds no issue is left as one in which it finds none, and no command
\* leaves more entries that name no service than it loaded (Add inserts
\* services only, Remove takes an entry away).
C28_DanglingNeverIncreases ==
    cmd # "none" =>
        /\ DOMAIN manifest = Services
        /\ NoIssues(loaded) => NoIssues(Load(manifest))
        /\ Cardinality(DanglingEntries(Load(manifest)))
              <= Cardinality(DanglingEntries(loaded))

\* A Remove took away an entry that names no service.
C28_DanglingEntryRemoved ==
    /\ cmd = "remove"
    /\ result = Ok
    /\ destService \notin Services
    /\ Cardinality(DanglingEntries(Load(manifest)))
          < Cardinality(DanglingEntries(loaded))

\* C29: in Remove the validations precede the confirmation: console.Confirm
\* is asked at most once, and only when the source is a service whose list
\* is not empty and holds the target; a Remove that fails with an error has
\* not asked; and Save is called only when the answer was yes or force was
\* given.
C29_RemoveConfirmsAfterChecks ==
    cmd = "remove" =>
        /\ confirmCalls <= 1
        /\ confirmCalls = 1 =>
              /\ srcService \in Services
              /\ Len(loaded[srcService].DependsOn) > 0
              /\ Contains(loaded[srcService].DependsOn, destService)
              /\ answer \in {"yes", "no"}
        /\ result.status = "error" => confirmCalls = 0
        /\ saveCalls > 0 => (force \/ (confirmCalls = 1 /\ answer = "yes"))

\* A Remove without force asked and was answered yes, and saved.
C29_ConfirmedRemoveSaved ==
    /\ cmd = "remove"
    /\ ~force
    /\ confirmCalls = 1
    /\ answer = "yes"
    /\ saveCalls = 1
    /\ result = Ok

----------------------------------------------------------------------------
\* Properties of the library functions.

\* The project the function was called on.
Config == call.config

\* a lists b, both services of the project.
Edge(cfg, a, b) ==
    /\ a \in DOMAIN cfg
    /\ b \in DOMAIN cfg
    /\ Contains(cfg[a].DependsOn, b)

\* The dependsOn relation of the project has a cycle among its services: a
\* closed walk over at most all of them.
HasCycle(cfg) ==
    \E k \in 1..Cardinality(DOMAIN cfg) :
        \E p \in [1..k -> DOMAIN cfg] :
            \A i \in 1..k : Edge(cfg, p[i], p[(i % k) + 1])

\* C12: on a project whose dependsOn relation has a cycle among existing
\* services, DetectCyclicDependencies returns at least one cycle report,
\* whatever the order in which the services are tried as DFS roots.
C12_CycleReported ==
    (call.op = "DetectCyclicDependencies" /\ returned /\ HasCycle(Config))
    => Len(ret) >= 1

\* C12 witness: two services list each other, a third one without
\* dependencies was tried first, and a cycle was reported.
C12_MutualCycleFoundFromLaterRoot ==
    /\ call.op = "DetectCyclicDependencies"
    /\ returned
    /\ DOMAIN Config = {"api", "web", "database"}
    /\ call.order[1] = "database"
    /\ Config["database"].DependsOn = <<>>
    /\ Edge(Config, "api", "web")
    /\ Edge(Config, "web", "api")
    /\ Len(ret) >= 1

\* The entries of dependsOn lists that name no service: (service, position).
Dangling(cfg) ==
    {e \in (DOMAIN cfg) \X (1..MaxGraphEdges) :
        /\ e[2] <= Len(cfg[e[1]].DependsOn)
        /\ cfg[e[1]].DependsOn[e[2]] \notin DOMAIN cfg}

\* The issue names the service and the dependency.
IssueNames(issue, serviceName, dependencyName) ==
    /\ issue[2] = serviceName
    /\ issue[4] = dependencyName

\* C13: ValidateServiceDependencies returns exactly one issue per entry D of a
\* list of a service S with D no service of the project: as many issues as
\* such entries, none on a project without services or without such an
\* entry, and each issue names its S and D.
C13_OneIssuePerDanglingEntry ==
    (call.op = "ValidateServiceDependencies" /\ returned)
    => /\ Len(ret) = Cardinality(Dangling(Config))
       /\ \A k \in 1..Len(ret) :
              \E e \in Dangling(Config) :
                  IssueNames(ret[k], e[1], Config[e[1]].DependsOn[e[2]])
       /\ \A serviceName \in DOMAIN Config, dependencyName \in Names :
              Cardinality({k \in 1..Len(ret) :
                              IssueNames(ret[k], serviceName, dependencyName)})
              = IF dependencyName \in DOMAIN Config
                THEN 0
                ELSE Count(Config[serviceName].DependsOn, dependencyName)

\* C13 witness: a service with two entries that name no service and one that
\* names a service got two issues.
C13_TwoDanglingEntries ==
    /\ call.op = "ValidateServiceDependencies"
    /\ returned
    /\ \E serviceName \in DOMAIN Config :
          /\ Cardinality({e \in Dangling(Config) : e[1] = serviceName}) = 2
          /\ \E i \in 1..Len(Config[serviceName].DependsOn) :
                 Config[serviceName].DependsOn[i] \in DOMAIN Config
    /\ Len(ret) = 2

\* C14: BuildDependencyGraph returns a map whose keys are exactly the
\* declared services, each mapped to its dependsOn list in order, and to an
\* empty sequence that is not nil when it has no dependencies.
C14_GraphOfDeclaredServices ==
    (call.op = "BuildDependencyGraph" /\ returned)
    => /\ DOMAIN ret = DOMAIN Config
       /\ \A serviceName \in DOMAIN ret :
              /\ ret[serviceName].DependsOn = Config[serviceName].DependsOn
              /\ ~ret[serviceName].isNil

\* C14 witness: the graph of a project with a service whose dependsOn is nil
\* and a service that lists a name that is no service.
C14_NilAndDanglingInGraph ==
    /\ call.op = "BuildDependencyGraph"
    /\ returned
    /\ \E a, b \in DOMAIN Config :
          /\ Config[a].isNil
          /\ ret[a] = Deps(<<>>)
          /\ \E i \in 1..Len(Config[b].DependsOn) :
                 Config[b].DependsOn[i] \notin DOMAIN Config

\* C15: in the list view required-by is the inverse of depends-on over the
\* services of the project: A is in the requiredBy of the view of B exactly
\* when A is a service whose dependsOn holds B; a dependency that names no
\* service gets no view and no requiredBy entry; the dependsOn of a view
\* holds the entries of the service's list; a service without relationships
\* has both lists empty.
C15_RequiredByInvertsDependsOn ==
    (cmd = "list" /\ result = Ok)
    => /\ {views[k].Service : k \in 1..Len(views)}
          = IF srcService = "" THEN Services ELSE {srcService}
       /\ \A k \in 1..Len(views) :
              LET B == views[k].Service
              IN  /\ B \in Services
                  /\ \A A \in Names :
                         /\ Contains(views[k].RequiredBy, A)
                            <=> (A \in Services /\ Contains(loaded[A].DependsOn, B))
                         /\ Count(views[k].DependsOn, A)
                            = Count(loaded[B].DependsOn, A)
                  /\ ((\A A \in Services : ~Contains(loaded[A].DependsOn, B))
                      /\ Len(loaded[B].DependsOn) = 0)
                     => (views[k].DependsOn = <<>> /\ views[k].RequiredBy = <<>>)

\* C15 witness: the full list of a project in which web lists api and a name
\* that is no service, and api lists nothing.
C15_ListedWithDanglingDependency ==
    /\ cmd = "list"
    /\ result = Ok
    /\ Len(views) = 2
    /\ Contains(loaded["web"].DependsOn, "api")
    /\ Contains(loaded["web"].DependsOn, "database")
    /\ views[1] = [Service |-> "api", DependsOn |-> <<>>, RequiredBy |-> <<"web">>]
    /\ views[2].RequiredBy = <<>>

\* The key spells the lower-case word in some mix of upper and lower case.
SpellsIgnoringCase(key, word) ==
    /\ Len(key) = Len(word)
    /\ \A i \in 1..Len(word) : key[i] \in {word[i], ToUpperChar(word[i])}

\* C18: GetDependencyHandlerForProvider returns the Terraform handler for
\* every spelling of "terraform" in upper and lower case, and the Bicep
\* handler for every other key: the spellings of "bicep", the empty key and
\* the keys it does not know.
C18_HandlerByKeyIgnoringCase ==
    (call.op = "GetDependencyHandlerForProvider" /\ returned)
    => ret = IF SpellsIgnoringCase(call.provider, <<"t", "e", "r", "r", "a", "f", "o", "r", "m">>)
             THEN "TerraformDependencyHandler"
             ELSE "BicepDependencyHandler"

\* C18 witness: the Terraform handler was returned for a key in mixed case.
C18_MixedCaseTerraform ==
    /\ call.op = "GetDependencyHandlerForProvider"
    /\ returned
    /\ call.provider = <<"T", "e", "r", "r", "a", "F", "o", "r", "m">>
    /\ ret = "TerraformDependencyHandler"

\* The entries of the list the formatter was called with.
FormatEntries == call.dependencies.DependsOn

\* The expression returned is the opening piece, one item of the given
\* pieces per entry in the order of the entries (the entry at position at of
\* the item), ", " between two items, and the closing "]".
WrapsItems(opening, item, at) ==
    LET n == Len(FormatEntries)
        w == Len(item) + 1
    IN  /\ Len(ret) = n * w + 1
        /\ ret[1] = opening
        /\ ret[Len(ret)] = "]"
        /\ \A i \in 1..n :
               /\ \A j \in 1..Len(item) :
                      ret[(i - 1) * w + 1 + j]
                      = IF j = at THEN FormatEntries[i] ELSE item[j]
               /\ i < n => ret[i * w + 1] = ", "

\* C19: FormatDependsOnExpression of either handler returns the empty string
\* for an empty list and else the provider's wrapper around one item per
\* entry, in order, joined by ", ": Bicep `dependsOn: [resource_<dep>.id,
\* ...]`, Terraform `depends_on = [module.<dep>, ...]`.  The service argument
\* has no part in the result.
C19_HandlerExpression ==
    (call.op = "FormatDependsOnExpression" /\ returned)
    => IF Len(FormatEntries) = 0
       THEN ret = <<>>
       ELSE IF call.handler = "BicepDependencyHandler"
       THEN WrapsItems("dependsOn: [", <<"resource_", "", ".id">>, 2)
       ELSE WrapsItems("depends_on = [", <<"module.", "">>, 2)

\* C19 witness: a handler formatted a list of three entries with a repeated
\* name.
C19_ThreeEntriesFormatted ==
    /\ call.op = "FormatDependsOnExpression"
    /\ returned
    /\ call.handler = "TerraformDependencyHandler"
    /\ FormatEntries = <<"web", "api", "web">>
    /\ Len(ret) = 10

\* C20: BuildBicepDependsOn renders each dependency as `<prefix>_<dep>.id` and
\* BuildTerraformDependsOn as `module.<prefix>_<dep>`, one item per entry in
\* order inside the provider's wrapper, and both return the empty string for
\* an empty list.
C20_PrefixedExpression ==
    (call.op \in {"BuildBicepDependsOn", "BuildTerraformDependsOn"} /\ returned)
    => IF Len(FormatEntries) = 0
       THEN ret = <<>>
       ELSE IF call.op = "BuildBicepDependsOn"
       THEN WrapsItems("dependsOn: [", <<call.prefix, "_", "", ".id">>, 3)
       ELSE WrapsItems("depends_on = [", <<"module.", call.prefix, "_", "">>, 4)

\* C20 witness: BuildBicepDependsOn formatted two entries with a prefix.
C20_TwoEntriesPrefixed ==
    /\ call.op = "BuildBicepDependsOn"
    /\ returned
    /\ call.prefix = "svc"
    /\ FormatEntries = <<"database", "api">>
    /\ Len(ret) = 11

\* The report is a cycle of the project: n1 -> ... -> nk -> n1 with k >= 1,
\* n1..nk pairwise distinct and every consecutive pair an edge between
\* services.
RealCycle(cfg, report) ==
    /\ Len(report) >= 2
    /\ report[1] = report[Len(report)]
    /\ \A i, j \in 1..(Len(report) - 1) : i # j => report[i] # report[j]
    /\ \A i \in 1..(Len(report) - 1) : Edge(cfg, report[i], report[i + 1])

\* C21: every report DetectCyclicDependencies returns is a cycle of the
\* project (a self-dependency being reported as A -> A), also when a later
\* root reaches services an earlier root's aborted traversal left marked
\* on-path, and a project without cycle gets no report.
C21_ReportsAreCycles ==
    (call.op = "DetectCyclicDependencies" /\ returned)
    => /\ \A k \in 1..Len(ret) : RealCycle(Config, ret[k])
       /\ ~HasCycle(Config) => ret = <<>>

\* C21 witness: api lists itself and was tried first, which left it marked
\* on-path; web, tried later, lists api, and the only report is api -> api.
C21_StaleOnPathNotReported ==
    /\ call.op = "DetectCyclicDependencies"
    /\ returned
    /\ {"api", "web"} \subseteq DOMAIN Config
    /\ call.order[1] = "api"
    /\ Config["api"].DependsOn = <<"api">>
    /\ Config["web"].DependsOn = <<"api">>
    /\ ret = << <<"api", "api">> >>

\* C22: the number of cycle reports is the same for every order in which the
\* services are iterated as DFS roots.
C22_SameCountForEveryOrder ==
    (call.op = "DetectCyclicDependencies" /\ returned)
    => \A o \in Orders(DOMAIN Config) :
           Len(DetectCyclicDependencies(Config, o)) = Len(ret)

\* The state of the run before any root was tried.
NoRoots == [visited |-> {}, path |-> {}, cycles |-> <<>>]

\* The state of the run after the first n services of the order were looked
\* at as roots.
AfterRoots(n) == RunRoots(Config, SubSeq(call.order, 1, n), 1, NoRoots)

\* The positions of the order at which a root traversal was started: the
\* service was not visited yet.
RootsStarted ==
    {n \in 1..Len(call.order) : call.order[n] \notin AfterRoots(n - 1).visited}

\* C23: each root traversal appends at most one report, a service already
\* visited starts none, so there are at most as many reports as root
\* traversals started, and at most as many as services.
C23_OneReportPerRoot ==
    (call.op = "DetectCyclicDependencies" /\ returned)
    => /\ ret = AfterRoots(Len(call.order)).cycles
       /\ \A n \in 1..Len(call.order) :
              /\ Len(AfterRoots(n).cycles) <= Len(AfterRoots(n - 1).cycles) + 1
              /\ n \notin RootsStarted
                 => AfterRoots(n).cycles = AfterRoots(n - 1).cycles
       /\ Len(ret) <= Cardinality(RootsStarted)
       /\ Len(ret) <= Cardinality(DOMAIN Config)

\* C23 witness: the first root lists itself twice and after that a service
\* that lists itself; one report came from the first traversal, and the
\* second service, visited by it, started no traversal.
C23_SecondCycleOfRootNotReported ==
    /\ call.op = "DetectCyclicDependencies"
    /\ returned
    /\ DOMAIN Config = {"api", "web"}
    /\ call.order = <<"api", "web">>
    /\ Config["api"].DependsOn = <<"web", "api">>
    /\ Config["web"].DependsOn = <<"web">>
    /\ Len(ret) = 1

----------------------------------------------------------------------------
\* Properties of the functions called step by step and one after the other.

NoRepeat(seq) == \A i, j \in 1..Len(seq) : i # j => seq[i] # seq[j]

Detecting == run.state = "detect"

\* dfs is called by the root loop in this step.
RootStarted == Detecting /\ Len(run'.roots) > Len(run.roots)

\* C24: DetectCyclicDependencies terminates on every project, cyclic or with
\* dangling names or not: a call that has begun returns; during the call no
\* name is marked visited and expanded twice; and the root loop never calls
\* dfs for a name that is visited already.
C24_DetectTerminates ==
    /\ [](Detecting => NoRepeat(run.expanded))
    /\ [][RootStarted => run'.roots[Len(run'.roots)] \notin run.visited]_vars
    /\ (Detecting ~> run.state = "ready")

\* A call on a cyclic project with a dangling name has returned; the
\* dangling name was expanded and a service reached from an earlier root
\* was not started as a root.
C24_CyclicDanglingRunReturned ==
    /\ call.op = "DetectCyclicDependencies"
    /\ returned
    /\ ret # <<>>
    /\ \E n \in Names : n \notin DOMAIN Config /\ Contains(run.expanded, n)
    /\ Len(run.roots) < Len(run.order)

\* What the function called last returns for the project when nothing was
\* called before.
FirstResult ==
    CASE call.op = "DetectCyclicDependencies" ->
             DetectCyclicDependencies(Config, run.order)
      [] call.op = "ValidateServiceDependencies" ->
             ValidateServiceDependencies(Config, run.order)
      [] call.op = "BuildDependencyGraph" -> BuildDependencyGraph(Config)

----------------------------------------------------------------------------
\* Properties of two invocations on the same manifest.

\* Invocation i has returned.
Returned(i) == procs.p[i].pc = "done"

\* Invocation i was an Add that succeeded and has returned.
Added(i) ==
    /\ Returned(i)
    /\ procs.p[i].inv.op = "add"
    /\ procs.p[i].out.result = Ok

\* Invocation i returned before invocation j loaded.
Before(i, j) ==
    /\ Returned(i)
    /\ procs.p[j].pc # "start"
    /\ procs.p[i].loadedAt < procs.p[j].loadedAt
    /\ procs.p[i].savedAt < procs.p[j].loadedAt

\* Both invocations loaded before either saved, and i saved last.
SavedLastAfterBothLoaded(i, j) ==
    /\ procs.p[i].loadedAt < procs.p[j].savedAt
    /\ procs.p[j].loadedAt < procs.p[i].savedAt
    /\ procs.p[j].savedAt < procs.p[i].savedAt

\* The manifest holds the edge the invocation i named.
HoldsEdgeOf(i) ==
    LET a == procs.p[i].inv.a
    IN  a[1] \in DOMAIN manifest /\ Contains(manifest[a[1]].DependsOn, a[2])

\* C25: Save is unguarded: of two invocations that add different edges and
\* both load before either saves, the manifest holds, after both saves, the
\* copy of the one that saved last, with its edge and without the other's;
\* when one returns before the other loads the manifest holds both edges.
C25_LaterSaveWins ==
    \A i, j \in Procs :
        (i # j /\ Added(i) /\ Added(j) /\ procs.p[i].inv.a # procs.p[j].inv.a) =>
            /\ SavedLastAfterBothLoaded(i, j) =>
                  /\ manifest = Save(procs.p[i].out.config)
                  /\ HoldsEdgeOf(i)
                  /\ ~HoldsEdgeOf(j)
            /\ Before(j, i) => (HoldsEdgeOf(i) /\ HoldsEdgeOf(j))

\* Two Adds to different services both succeeded after both had loaded, and
\* the first one's edge is gone.
C25_EdgeOfOtherServiceLost ==
    \E i, j \in Procs :
        /\ i # j
        /\ Added(i)
        /\ Added(j)
        /\ procs.p[i].inv.a[1] # procs.p[j].inv.a[1]
        /\ SavedLastAfterBothLoaded(i, j)
        /\ ~HoldsEdgeOf(j)

\* Invocation j was the forced Remove of the edge that the Add i put in.
RemovedAgain(i, j) ==
    /\ Added(i)
    /\ Before(i, j)
    /\ Returned(j)
    /\ procs.p[j].inv = [op |-> "remove", a |-> procs.p[i].inv.a]
    /\ ~Contains(procs.original[procs.p[i].inv.a[1]].DependsOn, procs.p[i].inv.a[2])

\* C30: Add followed by Remove is a round trip: when source and target are
\* services and the source's list does not hold the target, Add(source,
\* target) succeeds and a forced Remove(source, target) after it succeeds
\* and leaves every service with the entries it had at first, in the same
\* order, a list without entries being absent from the manifest.
C30_AddThenRemoveRestores ==
    \A i, j \in Procs :
        /\ (/\ i # j
            /\ Returned(i)
            /\ procs.p[i].loadedAt = 1
            /\ procs.p[i].inv.op = "add"
            /\ procs.p[i].inv.a[1] \in DOMAIN procs.original
            /\ procs.p[i].inv.a[2] \in DOMAIN procs.original
            /\ ~Contains(procs.original[procs.p[i].inv.a[1]].DependsOn,
                         procs.p[i].inv.a[2]))
           => procs.p[i].out.result = Ok
        /\ (i # j /\ RemovedAgain(i, j)) =>
              /\ procs.p[j].out.result = Ok
              /\ manifest = Save(Load(procs.original))

\* An edge was added to a list that held other entries and removed again.
C30_RemovedFromLongerList ==
    \E i, j \in Procs :
        /\ i # j
        /\ RemovedAgain(i, j)
        /\ Len(procs.original[procs.p[i].inv.a[1]].DependsOn) > 0
        /\ procs.p[j].savedAt > 0

----------------------------------------------------------------------------
\* Properties of TestDepCommands.

\* The test is run with the names it uses itself.
TestOwnNames == test.s = "api" /\ test.t1 = "database" /\ test.t2 = "web"

\* The last subtest has run its commands without a failed require: Add(s, t1)
\* and Add(s, t2) have succeeded and one forced Remove(s, t2) has succeeded.
RemoveAllDone ==
    /\ test.step = Len(Script)
    /\ test.failed \cap {15, 16, 17} = {}

\* C16: after Add(s, t1) and Add(s, t2) have succeeded and one forced
\* Remove(s, t2) has succeeded, s.dependsOn is empty, as the last require of
\* DepRemoveAll asserts.
C16_EmptyAfterOneRemove ==
    RemoveAllDone => Len(manifest[test.s].DependsOn) = 0

\* C17: run on the manifest of the test (api, web, database, no
\* dependencies), every command of TestDepCommands returns without error.
C17_NoCommandFails ==
    (TestOwnNames /\ test.step > 0) => result.status # "error"

====
